---- MODULE Spec2Model ----
(***************************************************************************)
(* BEAVY Boolean gates (Input, Output, INV, XOR, AND) of MOTION2NX as a    *)
(* state machine: every party holds its own wire objects (secret share,    *)
(* public share, the two readiness events) and runs, for every gate, one   *)
(* setup task and one online task.  A task is a sequence of steps that     *)
(* ends at each suspension point of the code (wait_setup / wait_online on  *)
(* a wire, get() on a message future, a blocking OT call).                 *)
(***************************************************************************)
EXTENDS Integers, Sequences, FiniteSets, TLC

\* ------------------------------------------------------------ bounds
\* seeds of the per-peer randomness generators are 0..MaxSeed
MaxSeed == 1
\* a fresh random vector of more than one bit takes one of MaxRandom values
MaxRandom == 2
\* the longest wire vector handed to a gate constructor
MaxWires == 2
\* the most messages handed to one communication handler by Send
MaxHanded == 1

\* ------------------------------------------------------- bit vectors
Bits == {0, 1}

AllVectors(n) == [1..n -> Bits]

\* A bit is 0 or 1, or 2 when it was read in a race with its writer (before
\* the readiness event of its wire): 2 stands for every value the read may
\* have produced.  Operands of different lengths only meet after such a read;
\* the bits of x past the end of y are open as well.
UndetV(n) == [i \in 1..n |-> 2]

XorBit(a, b) == IF a = 2 \/ b = 2 THEN 2 ELSE (a + b) % 2

AndBit(a, b) == IF a = 0 \/ b = 0 THEN 0 ELSE IF a = 2 \/ b = 2 THEN 2 ELSE 1

XorV(x, y) == [i \in 1..Len(x) |-> IF i <= Len(y) THEN XorBit(x[i], y[i]) ELSE 2]

AndV(x, y) == [i \in 1..Len(x) |-> IF i <= Len(y) THEN AndBit(x[i], y[i]) ELSE 2]

NotV(x) == [i \in 1..Len(x) |-> IF x[i] = 2 THEN 2 ELSE 1 - x[i]]

ZeroV(n) == [i \in 1..n |-> 0]

\* BitVector::Subset(from, to): the bits from (0-based) up to, not including, to
SubsetV(x, from, to) ==
  [i \in 1..(to - from) |-> IF from + i <= Len(x) THEN x[from + i] ELSE 2]

RECURSIVE Pow2(_)
Pow2(n) == IF n = 0 THEN 1 ELSE 2 * Pow2(n - 1)

\* the k-th pattern of length n: runs of length (k+1) \div 2, starting with k % 2
Pattern(n, k) == [i \in 1..n |-> (((i - 1) \div ((k + 1) \div 2)) + k) % 2]

\* the values a draw of n random bits may take when it may take m values: all
\* vectors when there are no more than m, the first m patterns otherwise
RandomChoices(n, m) ==
  IF Pow2(n) <= m THEN AllVectors(n)
  ELSE {Pattern(n, k) : k \in 1..m}

\* SharingRandomnessGenerator::GetBits(offset, n): n bits of the stream of the
\* seed from position offset on; the streams of two seeds differ
GetBits(seed, offset, n) == [i \in 1..n |-> ((offset + i + seed) \div (seed + 1)) % 2]

\* XOR of the vectors f[q], q in S, all of length n
RECURSIVE XorOver(_, _, _)
XorOver(f, S, n) ==
  IF S = {} THEN ZeroV(n)
  ELSE LET q == CHOOSE q \in S : TRUE
       IN XorV(f[q], XorOver(f, S \ {q}, n))

\* the sequences that take their i-th element from the set ss[i]
RECURSIVE ProdSeq(_)
ProdSeq(ss) ==
  IF ss = <<>> THEN {<<>>}
  ELSE {<<x>> \o t : x \in Head(ss), t \in ProdSeq(Tail(ss))}

\* concatenation of the vectors s[1], s[2], ...
RECURSIVE Flatten(_)
Flatten(s) == IF s = <<>> THEN <<>> ELSE Head(s) \o Flatten(Tail(s))

\* ---------------------------------------------------------- circuits
ALL_PARTIES == -1

\* the output wires a gate allocates: <<gate, index>>
Share(c, g) == [i \in 1..c[g].nw |-> <<g, i>>]

NumSimdOf(c, w) == c[w[1]].ns

\* count_bits
count_bits(c, wires) ==
  LET RECURSIVE sum(_)
      sum(s) == IF s = <<>> THEN 0 ELSE NumSimdOf(c, Head(s)) + sum(Tail(s))
  IN sum(wires)

BooleanBEAVYInputGate(owner, num_wires, num_simd) ==
  [kind |-> "IN", owner |-> owner, nw |-> num_wires, ns |-> num_simd,
   a |-> <<>>, b |-> <<>>]

BooleanBEAVYOutputGate(c, inputs, output_owner) ==
  [kind |-> "OUT", owner |-> output_owner, nw |-> Len(inputs), ns |-> 0,
   a |-> inputs, b |-> <<>>]

\* the std::logic_error the unary constructor throws, or "" when it throws none
UnaryGateError(c, in) ==
  IF Len(in) = 0 THEN "number of wires need to be positive"
  ELSE IF \E i \in 1..Len(in) : NumSimdOf(c, in[i]) # NumSimdOf(c, in[1])
       THEN "number of SIMD values need to be the same for all wires"
       ELSE ""

\* BasicBooleanBEAVYUnaryGate: the error thrown, or the gate with its num_wires_
\* output wires (the input wires themselves when forward is true)
BasicBooleanBEAVYUnaryGate(c, kind, in) ==
  IF UnaryGateError(c, in) # "" THEN [error |-> UnaryGateError(c, in)]
  ELSE [kind |-> kind, owner |-> ALL_PARTIES, nw |-> Len(in),
        ns |-> NumSimdOf(c, in[1]), a |-> in, b |-> <<>>]

\* a binary constructor that compares the lanes of inputs_a_ only
BinaryGateErrorCheckingAOnly(c, in_b, in_a) ==
  IF Len(in_a) = 0 THEN "number of wires need to be positive"
  ELSE IF Len(in_a) # Len(in_b)
       THEN "number of wires need to be the same for both inputs"
       ELSE IF \E i \in 1..Len(in_a) : NumSimdOf(c, in_a[i]) # NumSimdOf(c, in_a[1])
            THEN "number of SIMD values need to be the same for all wires"
            ELSE ""

\* the std::logic_error the binary constructor throws, or "" when it throws none
BinaryGateError(c, in_b, in_a) ==
  IF Len(in_a) = 0 THEN "number of wires need to be positive"
  ELSE IF Len(in_a) # Len(in_b)
       THEN "number of wires need to be the same for both inputs"
       ELSE IF \E i \in 1..Len(in_a) :
                 \/ NumSimdOf(c, in_a[i]) # NumSimdOf(c, in_a[1])
                 \/ NumSimdOf(c, in_b[i]) # NumSimdOf(c, in_a[1])
            THEN "number of SIMD values need to be the same for all wires"
            ELSE ""

\* BasicBooleanBEAVYBinaryGate(gate_id, in_b, in_a): the first vector handed
\* over becomes inputs_b_, the second inputs_a_; the error thrown, or the gate
\* with its num_wires_ fresh output wires
BasicBooleanBEAVYBinaryGate(c, kind, in_b, in_a) ==
  IF BinaryGateError(c, in_b, in_a) # "" THEN [error |-> BinaryGateError(c, in_b, in_a)]
  ELSE [kind |-> kind, owner |-> ALL_PARTIES, nw |-> Len(in_a),
        ns |-> NumSimdOf(c, in_a[1]), a |-> in_a, b |-> in_b]

BooleanBEAVYINVGate(c, in) == BasicBooleanBEAVYUnaryGate(c, "INV", in)

BooleanBEAVYXORGate(c, in_a, in_b) == BasicBooleanBEAVYBinaryGate(c, "XOR", in_a, in_b)

BooleanBEAVYANDGate(c, in_a, in_b) == BasicBooleanBEAVYBinaryGate(c, "AND", in_a, in_b)

\* ------------------------------------------------------------- state
VARIABLES
  np,              \* number of parties
  circ,            \* the circuit: gate id -> gate, the same at every party
  job,             \* gate id -> the party is_my_job designates
  oas,             \* online_after_setup
  nrand,           \* the number of values a draw of random bits may take
  reads_empty,     \* a racing read may see a share that was never assigned
  input,           \* gate id -> the clear input handed to the input future
  my_rng,          \* p -> q -> seed of "my RNG toward q"
  their_rng,       \* p -> q -> seed of "their RNG toward me" for peer q
  secret_share,    \* p -> wire -> bits
  public_share,    \* p -> wire -> bits
  setup_ready,     \* p -> wire -> BOOLEAN
  online_ready,    \* p -> wire -> BOOLEAN
  pcS,             \* p -> gate -> position of evaluate_setup
  pcO,             \* p -> gate -> position of evaluate_online
  delta_a_share_,  \* p -> gate -> bits (AND)
  delta_b_share_,  \* p -> gate -> bits (AND)
  Delta_y_share_,  \* p -> gate -> bits (AND)
  ot,              \* p -> gate -> the XCOT-bit sender and receiver of the gate
  registered,      \* p -> set of <<sender, gate>> with a registered future
  inbox,           \* p -> <<sender, gate>> -> payloads sent and not yet taken
  my_secret_share, \* p -> gate -> the Output gate's local accumulator
  output_promise,  \* p -> gate -> <<>> or <<the value set>>
  early,           \* reads of a field before its readiness event: a history
  setup_calls,     \* p -> wire -> number of set_setup_ready calls: a history
  online_calls,    \* p -> wire -> number of set_online_ready calls: a history
  resolved,        \* p -> the <<sender, gate>> futures whose get has returned
  constructed,     \* <<>> or the last gate constructor call and what it gave
  share_inputs_,   \* p -> BOOLEAN, for the parties whose ABYNBackend is modelled
  communication_handlers_, \* p -> q -> the messages handed to p's handler for q
  thrown,          \* p -> the errors thrown at p by the backend or by a gate
  logged,          \* p -> the lines the backend of p has logged
  hello_ok,        \* p -> "unverified", "verified" or "failed"
  evaluated        \* p -> the evaluation of the circuit has been started

cfgVars == <<np, circ, job, oas, nrand, reads_empty, input, my_rng, their_rng,
            registered>>
wireVars == <<secret_share, public_share, setup_ready, setup_calls, online_ready,
             online_calls>>
andVars == <<delta_a_share_, delta_b_share_, Delta_y_share_, ot>>
outVars == <<my_secret_share, output_promise>>
backendVars == <<share_inputs_, communication_handlers_, thrown, logged, hello_ok,
                evaluated>>
hostVars == <<constructed, backendVars>>
gateVars == <<wireVars, pcS, pcO, andVars, inbox, resolved, outVars, early>>
vars == <<cfgVars, hostVars, gateVars>>

Parties == 0..(np - 1)
Gates == 1..Len(circ)
Wires == UNION {{<<g, i>> : i \in 1..circ[g].nw} : g \in Gates}
Keys == Parties \X Gates

Start == [at |-> "start", i |-> 0]
Done == [at |-> "done", i |-> 0]
Failed == [at |-> "failed", i |-> 0]
At(l, i) == [at |-> l, i |-> i]

is_my_job(p, g) == job[g] = p

\* BitVector::Random(n)
RandomVectors(n) == RandomChoices(n, nrand)

\* the wire object that party p holds for output i of gate h: an INV gate
\* constructed with forward = TRUE re-uses its input wires as outputs
WireAtAllocated(p, w) == w

RECURSIVE WireAt(_, _)
WireAt(p, w) ==
  IF circ[w[1]].kind = "INV" /\ ~is_my_job(p, w[1])
  THEN WireAt(p, circ[w[1]].a[w[2]])
  ELSE w

outputs_(p, g) == [i \in 1..circ[g].nw |-> WireAt(p, <<g, i>>)]
inputs_a_(p, g) == [i \in 1..Len(circ[g].a) |-> WireAt(p, circ[g].a[i])]
inputs_b_(p, g) == [i \in 1..Len(circ[g].b) |-> WireAt(p, circ[g].b[i])]
num_simd(w) == circ[w[1]].ns

\* BEAVYProvider::get_next_input_id: the wires of the input gates before g
RECURSIVE get_next_input_id(_)
get_next_input_id(g) ==
  IF g = 1 THEN 0
  ELSE get_next_input_id(g - 1) +
       (IF circ[g - 1].kind = "IN" THEN circ[g - 1].nw ELSE 0)

\* the futures the constructors of party p register
RegisteredBy(c, n, p) ==
  UNION {
    CASE c[g].kind = "IN" /\ c[g].owner # p -> {<<c[g].owner, g>>}
      [] c[g].kind = "OUT" /\ (c[g].owner = ALL_PARTIES \/ c[g].owner = p) ->
           {<<q, g>> : q \in (0..(n - 1)) \ {p}}
      [] c[g].kind = "AND" -> {<<1 - p, g>>}
      [] OTHER -> {}
    : g \in 1..Len(c)}

\* the number of bits the future for a message of gate g is registered with
RegisteredBits(c, g) ==
  CASE c[g].kind = "IN" -> c[g].nw * c[g].ns
    [] c[g].kind \in {"OUT", "AND"} -> count_bits(c, c[g].a)
    [] OTHER -> 0

\* wait_setup / wait_online return once the event has fired
wait_setup(p, w) == setup_ready[p][w]
wait_online(p, w) == online_ready[p][w]

\* the gate engine starts the online task of a party's gate at any time, or,
\* with online_after_setup, once every setup task of the party has returned
OnlineMayStart(p) == oas => \A g \in Gates : pcS[p][g] = Done

\* what a read of a wire field yields: the stored bits once the readiness
\* event has fired; before that the read races with the writer and yields
\* any n bits or, where reads_empty, the empty vector of a share that was
\* never assigned
ReadSet(ready, stored, n) ==
  IF ready THEN {stored}
  ELSE {UndetV(n)} \cup (IF reads_empty THEN {<<>>} ELSE {})

EarlyOf(p, g, phase, field, ws, ready) ==
  {[p |-> p, g |-> g, phase |-> phase, field |-> field, w |-> ws[i]] :
     i \in {j \in 1..Len(ws) : ~ready[ws[j]]}}

\* provider.broadcast_bits_message / send_bits_message
SendTo(box, to, from, g, bits) ==
  [q \in DOMAIN box |->
     IF q \in to THEN [box[q] EXCEPT ![<<from, g>>] = Append(@, bits)]
     ELSE box[q]]

\* ------------------------------------------------- Input gate, values
\* the sender's public share after evaluate_setup: its secret share and the
\* bits of "my RNG toward q" of every peer q
SenderPremask(p, g, i, secret) ==
  XorV(secret,
       XorOver([q \in Parties |->
                  GetBits(my_rng[p][q], get_next_input_id(g) + (i - 1), circ[g].ns)],
               Parties \ {p}, circ[g].ns))

\* a receiver that asks its generator for the bits at input_id_, whatever the wire
ReceiverSecretWithoutWireOffset(p, g, i) ==
  GetBits(their_rng[p][circ[g].owner], get_next_input_id(g), circ[g].ns)

\* the receiver's secret share: the bits of "their RNG toward me" of the owner
ReceiverSecret(p, g, i) ==
  GetBits(their_rng[p][circ[g].owner], get_next_input_id(g) + (i - 1), circ[g].ns)

\* ----------------------------------------------------------------- Init
\* the bit vectors a caller may hand to the input future for a wire of n
\* lanes: of n bits, or up to slack bits shorter or longer
SuppliedVectors(n, slack) ==
  UNION {AllVectors(m) : m \in {k \in (n - slack)..(n + slack) : k >= 0}}

\* The state after construction of the gates of a scenario.  The input gates
\* in s.pre have been evaluated already at every party (both phases, their
\* broadcast taken by every receiver); all other tasks are still to run.
InitOn(scenarios) ==
  \E s \in scenarios :
    /\ np = s.np
    /\ circ = s.circ
    /\ nrand = s.nrand
    /\ reads_empty = s.empty
    /\ job \in [Gates -> Parties]
    /\ \A g \in Gates : circ[g].kind \notin {"INV", "AND"} => job[g] = 0
    /\ oas \in s.oas
    /\ input \in ProdSeq([g \in Gates |->
                  IF circ[g].kind = "IN"
                  THEN [1..circ[g].nw -> SuppliedVectors(circ[g].ns, s.slack)]
                  ELSE {<<>>}])
    /\ my_rng \in [Parties -> [Parties -> 0..MaxSeed]]
    /\ \A p, q \in Parties :
         (p = q \/ (p \notin s.backends
                      /\ ~\E g \in Gates : circ[g].kind = "IN" /\ circ[g].owner = p))
           => my_rng[p][q] = 0
    /\ their_rng = [p \in Parties |-> [q \in Parties |-> my_rng[q][p]]]
    /\ \E r \in ProdSeq([g \in Gates |->
                  IF g \in s.pre
                  THEN [1..circ[g].nw -> RandomVectors(circ[g].ns)]
                  ELSE {<<>>}]) :
         /\ secret_share = [p \in Parties |-> [w \in Wires |->
              IF w[1] \in s.pre
              THEN IF circ[w[1]].owner = p THEN r[w[1]][w[2]]
                   ELSE ReceiverSecret(p, w[1], w[2])
              ELSE <<>>]]
         /\ public_share = [p \in Parties |-> [w \in Wires |->
              IF w[1] \in s.pre
              THEN XorV(SenderPremask(circ[w[1]].owner, w[1], w[2], r[w[1]][w[2]]),
                        input[w[1]][w[2]])
              ELSE <<>>]]
    /\ setup_ready = [p \in Parties |-> [w \in Wires |-> w[1] \in s.pre]]
    /\ online_ready = [p \in Parties |-> [w \in Wires |-> w[1] \in s.pre]]
    /\ setup_calls = [p \in Parties |-> [w \in Wires |->
                        IF w[1] \in s.pre THEN 1 ELSE 0]]
    /\ online_calls = [p \in Parties |-> [w \in Wires |->
                         IF w[1] \in s.pre THEN 1 ELSE 0]]
    /\ pcS = [p \in Parties |-> [g \in Gates |->
                IF circ[g].kind = "OUT" \/ g \in s.pre THEN Done ELSE Start]]
    /\ pcO = [p \in Parties |-> [g \in Gates |->
                IF g \in s.pre THEN Done ELSE Start]]
    /\ delta_a_share_ = [p \in Parties |-> [g \in Gates |-> <<>>]]
    /\ delta_b_share_ = [p \in Parties |-> [g \in Gates |-> <<>>]]
    /\ Delta_y_share_ = [p \in Parties |-> [g \in Gates |-> <<>>]]
    /\ ot = [p \in Parties |-> [g \in Gates |->
               [choices |-> <<>>, corrections_sent |-> FALSE,
                correlations |-> <<>>, messages_sent |-> FALSE,
                sender_out |-> <<>>, receiver_out |-> <<>>]]]
    /\ registered = [p \in Parties |-> RegisteredBy(circ, np, p)]
    /\ inbox = [p \in Parties |-> [k \in Keys |-> <<>>]]
    /\ resolved = [p \in Parties |->
                     {k \in RegisteredBy(circ, np, p) : k[2] \in s.pre}]
    /\ my_secret_share = [p \in Parties |-> [g \in Gates |-> <<>>]]
    /\ output_promise = [p \in Parties |-> [g \in Gates |-> <<>>]]
    /\ early = {}
    /\ constructed = <<>>
    /\ share_inputs_ \in [IF s.backends = {} THEN Parties ELSE s.backends ->
                            IF s.backends = {} THEN {TRUE} ELSE BOOLEAN]
    /\ communication_handlers_ = [p \in Parties |-> [q \in Parties \ {p} |-> <<>>]]
    /\ thrown = [p \in Parties |-> {}]
    /\ logged = [p \in Parties |-> {}]
    /\ hello_ok = [p \in Parties |-> "unverified"]
    /\ evaluated = [p \in Parties |-> FALSE]

\* the wires ws of party p take the values vals
Write(f, p, ws, vals) ==
  [f EXCEPT ![p] = [w \in DOMAIN @ |->
     IF \E i \in 1..Len(ws) : ws[i] = w
     THEN vals[CHOOSE i \in 1..Len(ws) : ws[i] = w]
     ELSE @[w]]]

\* the readiness event of the wires ws fires at party p
Fire(f, p, ws) ==
  [f EXCEPT ![p] = [w \in DOMAIN @ |->
     IF \E i \in 1..Len(ws) : ws[i] = w THEN TRUE ELSE @[w]]]

\* the readiness event of the wires ws is signalled once more at party p
Count(f, p, ws) ==
  [f EXCEPT ![p] = [w \in DOMAIN @ |->
     @[w] + Cardinality({i \in 1..Len(ws) : ws[i] = w})]]

\* ---------------------------------------------------------- Input gate
\* BooleanBEAVYInputGateSender::evaluate_setup
InputSenderSetup(p, g) ==
  /\ circ[g].kind = "IN" /\ circ[g].owner = p
  /\ pcS[p][g] = Start
  /\ \E r \in [1..circ[g].nw -> RandomVectors(circ[g].ns)] :
       /\ secret_share' = Write(secret_share, p, outputs_(p, g), r)
       /\ setup_ready' = Fire(setup_ready, p, outputs_(p, g))
       /\ setup_calls' = Count(setup_calls, p, outputs_(p, g))
       /\ public_share' = Write(public_share, p, outputs_(p, g),
            [i \in 1..circ[g].nw |-> SenderPremask(p, g, i, r[i])])
  /\ pcS' = [pcS EXCEPT ![p][g] = Done]
  /\ UNCHANGED <<cfgVars, hostVars, online_ready, online_calls, pcO, andVars, inbox, resolved, outVars, early>>

\* the wires the loop of evaluate_online has dealt with when it ends: all of
\* them, or those before the first whose input has not num_simd_ bits
InputWiresDone(g) ==
  LET bad == {i \in 1..circ[g].nw : Len(input[g][i]) # circ[g].ns}
  IN  IF bad = {} THEN circ[g].nw
      ELSE (CHOOSE i \in bad : \A j \in bad : i <= j) - 1

\* BooleanBEAVYInputGateSender::evaluate_online
InputSenderOnline(p, g) ==
  /\ circ[g].kind = "IN" /\ circ[g].owner = p
  /\ pcO[p][g] = Start
  /\ OnlineMayStart(p)
  /\ LET done == InputWiresDone(g)
         ws == SubSeq(outputs_(p, g), 1, done)
     IN \E rd \in ProdSeq([i \in 1..done |->
                    ReadSet(pcS[p][g] = Done, public_share[p][ws[i]], circ[g].ns)]) :
          LET shares == [i \in 1..done |-> XorV(rd[i], input[g][i])]
          IN /\ public_share' = Write(public_share, p, ws, shares)
             /\ online_ready' = Fire(online_ready, p, ws)
             /\ online_calls' = Count(online_calls, p, ws)
             /\ early' = early \cup
                  EarlyOf(p, g, "online", "premask", ws, [w \in Wires |-> pcS[p][g] = Done])
             /\ IF done = circ[g].nw
                THEN /\ inbox' = SendTo(inbox, Parties \ {p}, p, g, Flatten(shares))
                     /\ pcO' = [pcO EXCEPT ![p][g] = Done]
                     /\ UNCHANGED thrown
                ELSE /\ thrown' = [thrown EXCEPT ![p] =
                                     @ \cup {"size of input bit vector != num_simd_"}]
                     /\ pcO' = [pcO EXCEPT ![p][g] = Failed]
                     /\ UNCHANGED inbox
  /\ UNCHANGED <<cfgVars, constructed, share_inputs_, communication_handlers_, logged,
                 hello_ok, evaluated, resolved, secret_share, setup_ready, setup_calls,
                 pcS, andVars, outVars>>

\* BooleanBEAVYInputGateReceiver::evaluate_setup
InputReceiverSetup(p, g) ==
  /\ circ[g].kind = "IN" /\ circ[g].owner # p
  /\ pcS[p][g] = Start
  /\ secret_share' = Write(secret_share, p, outputs_(p, g),
       [i \in 1..circ[g].nw |-> ReceiverSecret(p, g, i)])
  /\ setup_ready' = Fire(setup_ready, p, outputs_(p, g))
  /\ setup_calls' = Count(setup_calls, p, outputs_(p, g))
  /\ pcS' = [pcS EXCEPT ![p][g] = Done]
  /\ UNCHANGED <<cfgVars, hostVars, public_share, online_ready, online_calls, pcO, andVars, inbox, resolved,
                 outVars, early>>

\* BooleanBEAVYInputGateReceiver::evaluate_online
InputReceiverOnline(p, g) ==
  /\ circ[g].kind = "IN" /\ circ[g].owner # p
  /\ pcO[p][g] = Start
  /\ OnlineMayStart(p)
  /\ inbox[p][<<circ[g].owner, g>>] # <<>>
  /\ LET public_shares == Head(inbox[p][<<circ[g].owner, g>>])
     IN public_share' = Write(public_share, p, outputs_(p, g),
          [i \in 1..circ[g].nw |->
             SubsetV(public_shares, (i - 1) * circ[g].ns, i * circ[g].ns)])
  /\ online_ready' = Fire(online_ready, p, outputs_(p, g))
  /\ online_calls' = Count(online_calls, p, outputs_(p, g))
  /\ inbox' = [inbox EXCEPT ![p][<<circ[g].owner, g>>] = Tail(@)]
  /\ resolved' = [resolved EXCEPT ![p] = @ \cup {<<circ[g].owner, g>>}]
  /\ pcO' = [pcO EXCEPT ![p][g] = Done]
  /\ UNCHANGED <<cfgVars, hostVars, secret_share, setup_ready, setup_calls, pcS, andVars, outVars, early>>

\* --------------------------------------------------------- Output gate
\* the first party id from q on that is not p, or np when there is none
NextPeer(p, q) ==
  IF \E r \in Parties : r >= q /\ r # p
  THEN CHOOSE r \in Parties : r >= q /\ r # p /\ \A t \in Parties : (t >= q /\ t # p) => r <= t
  ELSE np

IsRecipient(p, g) == circ[g].owner = ALL_PARTIES \/ circ[g].owner = p

\* BooleanBEAVYOutputGate::get_output_future: the future of the promise, or the
\* error thrown
get_output_future(p, g) ==
  IF circ[g].owner = ALL_PARTIES \/ circ[g].owner = p
  THEN [future |-> output_promise[p][g]]
  ELSE [error |-> "not this parties output"]

\* an Output gate at which nobody sends its share
OutputDestinationsNobody(p, g) == {}

\* an Output gate at which only the recipients send their share
OutputDestinationsOfRecipients(p, g) ==
  IF circ[g].owner = ALL_PARTIES THEN Parties \ {p} ELSE {}

\* if (output_owner_ != my_id): broadcast for ALL_PARTIES, else send to the owner
OutputDestinations(p, g) ==
  IF circ[g].owner # p
  THEN IF circ[g].owner = ALL_PARTIES THEN Parties \ {p} ELSE {circ[g].owner}
  ELSE {}

\* BooleanBEAVYOutputGate::evaluate_online up to the first future: the secret
\* shares are collected and sent
OutputSend(p, g) ==
  /\ circ[g].kind = "OUT"
  /\ pcO[p][g] = Start
  /\ OnlineMayStart(p)
  /\ \E rd \in ProdSeq([i \in 1..circ[g].nw |->
                 ReadSet(setup_ready[p][inputs_a_(p, g)[i]],
                         secret_share[p][inputs_a_(p, g)[i]],
                         num_simd(inputs_a_(p, g)[i]))]) :
       /\ my_secret_share' = [my_secret_share EXCEPT ![p][g] = Flatten(rd)]
       /\ inbox' = SendTo(inbox, OutputDestinations(p, g), p, g, Flatten(rd))
  /\ early' = early \cup
       EarlyOf(p, g, "online", "secret_share", inputs_a_(p, g), setup_ready[p])
  /\ pcO' = [pcO EXCEPT ![p][g] =
       IF IsRecipient(p, g) THEN At("recv", NextPeer(p, 0)) ELSE Done]
  /\ UNCHANGED <<cfgVars, hostVars, resolved, wireVars, pcS, andVars, output_promise>>

\* the outputs the recipient computes from the reduced secret share
OutputValues(p, g, share, pub) ==
  [i \in 1..circ[g].nw |->
     LET bit_offset == count_bits(circ, SubSeq(circ[g].a, 1, i - 1))
     IN XorV(SubsetV(share, bit_offset, bit_offset + num_simd(inputs_a_(p, g)[i])),
             pub[i])]

\* BooleanBEAVYOutputGate::evaluate_online from share_futures_[party_id].get()
\* on: the next peer's share is taken; after the last one the outputs are
\* computed and the promise is set
OutputReceive(p, g) ==
  /\ circ[g].kind = "OUT"
  /\ pcO[p][g].at = "recv"
  /\ LET q == pcO[p][g].i
         reduced == XorV(my_secret_share[p][g], Head(inbox[p][<<q, g>>]))
     IN /\ inbox[p][<<q, g>>] # <<>>
        /\ my_secret_share' = [my_secret_share EXCEPT ![p][g] = reduced]
        /\ inbox' = [inbox EXCEPT ![p][<<q, g>>] = Tail(@)]
        /\ resolved' = [resolved EXCEPT ![p] = @ \cup {<<q, g>>}]
        /\ IF NextPeer(p, q + 1) < np
           THEN /\ pcO' = [pcO EXCEPT ![p][g] = At("recv", NextPeer(p, q + 1))]
                /\ UNCHANGED <<output_promise, early>>
           ELSE /\ \E pub \in ProdSeq([i \in 1..circ[g].nw |->
                          ReadSet(online_ready[p][inputs_a_(p, g)[i]],
                                  public_share[p][inputs_a_(p, g)[i]],
                                  num_simd(inputs_a_(p, g)[i]))]) :
                     output_promise' = [output_promise EXCEPT ![p][g] =
                        Append(@, OutputValues(p, g, reduced, pub))]
                /\ early' = early \cup
                     EarlyOf(p, g, "online", "public_share", inputs_a_(p, g),
                             online_ready[p])
                /\ pcO' = [pcO EXCEPT ![p][g] = Done]
  /\ UNCHANGED <<cfgVars, hostVars, wireVars, pcS, andVars>>

\* ----------------------------------------------------- INV and XOR gates
\* the loop index a task stands at
LoopIndex(pc) == IF pc = Start THEN 0 ELSE pc.i

AfterIteration(g, i) == IF i + 1 = circ[g].nw THEN Done ELSE At("loop", i + 1)

\* an INV gate that runs its loop at every party
INVNeverReturnsAtOnce(p, g) == FALSE

\* an INV gate that returns at once at every party
INVReturnsAtOnceEverywhere(p, g) == TRUE

\* if (!is_my_job_) return;
INVReturnsAtOnce(p, g) == ~is_my_job(p, g)

\* an INV gate that copies the secret share
INVSecretShareCopied(s) == s

\* ~w_in->get_secret_share()
INVSecretShare(s) == NotV(s)

\* BooleanBEAVYINVGate::evaluate_setup
INVSetup(p, g) ==
  /\ circ[g].kind = "INV"
  /\ pcS[p][g] # Done
  /\ IF INVReturnsAtOnce(p, g)
     THEN /\ pcS' = [pcS EXCEPT ![p][g] = Done]
          /\ UNCHANGED <<secret_share, setup_ready, setup_calls, early>>
     ELSE LET i == LoopIndex(pcS[p][g])
              w_in == inputs_a_(p, g)[i + 1]
              w_o == outputs_(p, g)[i + 1]
          IN /\ wait_setup(p, w_in)
             /\ \E s \in ReadSet(setup_ready[p][w_in], secret_share[p][w_in],
                                 num_simd(w_in)) :
                  secret_share' = Write(secret_share, p, <<w_o>>, <<INVSecretShare(s)>>)
             /\ setup_ready' = Fire(setup_ready, p, <<w_o>>)
             /\ setup_calls' = Count(setup_calls, p, <<w_o>>)
             /\ early' = early \cup
                  EarlyOf(p, g, "setup", "secret_share", <<w_in>>, setup_ready[p])
             /\ pcS' = [pcS EXCEPT ![p][g] = AfterIteration(g, i)]
  /\ UNCHANGED <<cfgVars, hostVars, public_share, online_ready, online_calls, pcO, andVars, inbox, resolved, outVars>>

\* BooleanBEAVYINVGate::evaluate_online
INVOnline(p, g) ==
  /\ circ[g].kind = "INV"
  /\ pcO[p][g] # Done
  /\ OnlineMayStart(p)
  /\ IF INVReturnsAtOnce(p, g)
     THEN /\ pcO' = [pcO EXCEPT ![p][g] = Done]
          /\ UNCHANGED <<public_share, online_ready, online_calls, early>>
     ELSE LET i == LoopIndex(pcO[p][g])
              w_in == inputs_a_(p, g)[i + 1]
              w_o == outputs_(p, g)[i + 1]
          IN /\ wait_online(p, w_in)
             /\ \E s \in ReadSet(online_ready[p][w_in], public_share[p][w_in],
                                 num_simd(w_in)) :
                  public_share' = Write(public_share, p, <<w_o>>, <<s>>)
             /\ online_ready' = Fire(online_ready, p, <<w_o>>)
             /\ online_calls' = Count(online_calls, p, <<w_o>>)
             /\ early' = early \cup
                  EarlyOf(p, g, "online", "public_share", <<w_in>>, online_ready[p])
             /\ pcO' = [pcO EXCEPT ![p][g] = AfterIteration(g, i)]
  /\ UNCHANGED <<cfgVars, hostVars, secret_share, setup_ready, setup_calls, pcS, andVars, inbox, resolved, outVars>>

\* an XOR gate that waits for its first input only
XORSetupWaitsForAOnly(p, w_a, w_b) == wait_setup(p, w_a)

\* w_a->wait_setup(); w_b->wait_setup();
XORSetupWaits(p, w_a, w_b) == wait_setup(p, w_a) /\ wait_setup(p, w_b)

\* w_a->wait_online(); w_b->wait_online();
XOROnlineWaits(p, w_a, w_b) == wait_online(p, w_a) /\ wait_online(p, w_b)

\* an XOR gate that takes the AND of the public shares
XORPublicShareAsAND(pa, pb) == AndV(pa, pb)

\* w_a->get_public_share() ^ w_b->get_public_share()
XORPublicShare(pa, pb) == XorV(pa, pb)

\* BooleanBEAVYXORGate::evaluate_setup
XORSetup(p, g) ==
  /\ circ[g].kind = "XOR"
  /\ pcS[p][g] # Done
  /\ LET i == LoopIndex(pcS[p][g])
         w_a == inputs_a_(p, g)[i + 1]
         w_b == inputs_b_(p, g)[i + 1]
         w_o == outputs_(p, g)[i + 1]
     IN /\ XORSetupWaits(p, w_a, w_b)
        /\ \E sa \in ReadSet(setup_ready[p][w_a], secret_share[p][w_a], num_simd(w_a)),
              sb \in ReadSet(setup_ready[p][w_b], secret_share[p][w_b], num_simd(w_b)) :
             secret_share' = Write(secret_share, p, <<w_o>>, <<XorV(sa, sb)>>)
        /\ setup_ready' = Fire(setup_ready, p, <<w_o>>)
        /\ setup_calls' = Count(setup_calls, p, <<w_o>>)
        /\ early' = early \cup
             EarlyOf(p, g, "setup", "secret_share", <<w_a, w_b>>, setup_ready[p])
        /\ pcS' = [pcS EXCEPT ![p][g] = AfterIteration(g, i)]
  /\ UNCHANGED <<cfgVars, hostVars, public_share, online_ready, online_calls, pcO, andVars, inbox, resolved, outVars>>

\* an XOR gate that broadcasts its public share as the AND gate does
XOROnlineBroadcasting(p, g) ==
  /\ circ[g].kind = "XOR"
  /\ pcO[p][g] # Done
  /\ OnlineMayStart(p)
  /\ LET i == LoopIndex(pcO[p][g])
         w_a == inputs_a_(p, g)[i + 1]
         w_b == inputs_b_(p, g)[i + 1]
         w_o == outputs_(p, g)[i + 1]
     IN /\ XOROnlineWaits(p, w_a, w_b)
        /\ public_share' = Write(public_share, p, <<w_o>>,
              <<XORPublicShare(public_share[p][w_a], public_share[p][w_b])>>)
        /\ inbox' = SendTo(inbox, Parties \ {p}, p, g, public_share'[p][w_o])
        /\ online_ready' = Fire(online_ready, p, <<w_o>>)
        /\ online_calls' = Count(online_calls, p, <<w_o>>)
        /\ pcO' = [pcO EXCEPT ![p][g] = AfterIteration(g, i)]
  /\ UNCHANGED <<cfgVars, hostVars, resolved, secret_share, setup_ready, setup_calls, pcS, andVars, outVars, early>>

\* BooleanBEAVYXORGate::evaluate_online
XOROnline(p, g) ==
  /\ circ[g].kind = "XOR"
  /\ pcO[p][g] # Done
  /\ OnlineMayStart(p)
  /\ LET i == LoopIndex(pcO[p][g])
         w_a == inputs_a_(p, g)[i + 1]
         w_b == inputs_b_(p, g)[i + 1]
         w_o == outputs_(p, g)[i + 1]
     IN /\ XOROnlineWaits(p, w_a, w_b)
        /\ \E pa \in ReadSet(online_ready[p][w_a], public_share[p][w_a], num_simd(w_a)),
              pb \in ReadSet(online_ready[p][w_b], public_share[p][w_b], num_simd(w_b)) :
             public_share' = Write(public_share, p, <<w_o>>, <<XORPublicShare(pa, pb)>>)
        /\ online_ready' = Fire(online_ready, p, <<w_o>>)
        /\ online_calls' = Count(online_calls, p, <<w_o>>)
        /\ early' = early \cup
             EarlyOf(p, g, "online", "public_share", <<w_a, w_b>>, online_ready[p])
        /\ pcO' = [pcO EXCEPT ![p][g] = AfterIteration(g, i)]
  /\ UNCHANGED <<cfgVars, hostVars, secret_share, setup_ready, setup_calls, pcS, andVars, inbox, resolved, outVars>>

\* ------------------------------------------------------------ AND gate
\* XCOT-bit: the sender's output is its random vector r, the receiver's is
\* r ^ (choices & correlations)
XCOTReceiverOutput(choices, r, correlations) == XorV(r, AndV(choices, correlations))

\* the bits of all wires of the gate
NumBits(g) == circ[g].nw * circ[g].ns

\* BooleanBEAVYANDGate::evaluate_setup, the loop over outputs_: fresh secret
\* shares, signalled setup-ready
ANDSetupOutputs(p, g) ==
  /\ circ[g].kind = "AND"
  /\ pcS[p][g] = Start
  /\ \E r \in [1..circ[g].nw -> RandomVectors(circ[g].ns)] :
       secret_share' = Write(secret_share, p, outputs_(p, g), r)
  /\ setup_ready' = Fire(setup_ready, p, outputs_(p, g))
  /\ setup_calls' = Count(setup_calls, p, outputs_(p, g))
  /\ pcS' = [pcS EXCEPT ![p][g] = At("loop", 0)]
  /\ UNCHANGED <<cfgVars, hostVars, public_share, online_ready, online_calls, pcO, andVars, inbox, resolved,
                 outVars, early>>

\* an AND gate that goes from SetCorrelations straight to ComputeOutputs
ANDSetupComputingUnsent(g, i) ==
  IF i + 1 = circ[g].nw THEN At("compute", 0) ELSE At("loop", i + 1)

\* where evaluate_setup stands after iteration i of the loop over the input
\* wires: at the next iteration or, past SetCorrelations, at SendMessages
ANDSetupAfterInputs(g, i) ==
  IF i + 1 = circ[g].nw THEN At("send", 0) ELSE At("loop", i + 1)

\* one iteration of the loop over the input wires; after the last one
\* SetChoices, SendCorrections and SetCorrelations, up to SendMessages
ANDSetupInputs(p, g) ==
  /\ circ[g].kind = "AND"
  /\ pcS[p][g].at = "loop"
  /\ LET i == pcS[p][g].i
         wire_a == inputs_a_(p, g)[i + 1]
         wire_b == inputs_b_(p, g)[i + 1]
         wire_o == outputs_(p, g)[i + 1]
     IN /\ wait_setup(p, wire_a)
        /\ wait_setup(p, wire_b)
        /\ \E sa \in ReadSet(setup_ready[p][wire_a], secret_share[p][wire_a],
                             num_simd(wire_a)),
              sb \in ReadSet(setup_ready[p][wire_b], secret_share[p][wire_b],
                             num_simd(wire_b)) :
             LET da == delta_a_share_[p][g] \o sa
                 db == delta_b_share_[p][g] \o sb
             IN /\ delta_a_share_' = [delta_a_share_ EXCEPT ![p][g] = da]
                /\ delta_b_share_' = [delta_b_share_ EXCEPT ![p][g] = db]
                /\ ot' = IF i + 1 = circ[g].nw
                         THEN [ot EXCEPT ![p][g].choices = da,
                                         ![p][g].corrections_sent = TRUE,
                                         ![p][g].correlations = db]
                         ELSE ot
        /\ Delta_y_share_' = [Delta_y_share_ EXCEPT ![p][g] =
                                @ \o secret_share[p][wire_o]]
        /\ early' = early \cup
             EarlyOf(p, g, "setup", "secret_share", <<wire_a, wire_b>>, setup_ready[p])
        /\ pcS' = [pcS EXCEPT ![p][g] = ANDSetupAfterInputs(g, i)]
  /\ UNCHANGED <<cfgVars, hostVars, wireVars, pcO, inbox, resolved, outVars>>

\* ot_sender_->SendMessages(): needs the peer's corrections
ANDSetupSendMessages(p, g) ==
  /\ circ[g].kind = "AND"
  /\ pcS[p][g].at = "send"
  /\ ot[1 - p][g].corrections_sent
  /\ \E r \in RandomVectors(NumBits(g)) :
       ot' = [ot EXCEPT ![p][g].messages_sent = TRUE, ![p][g].sender_out = r]
  /\ pcS' = [pcS EXCEPT ![p][g] = At("compute", 0)]
  /\ UNCHANGED <<cfgVars, hostVars, wireVars, pcO, delta_a_share_, delta_b_share_,
                 Delta_y_share_, inbox, resolved, outVars, early>>

\* ot_receiver_->ComputeOutputs() (needs the peer's messages),
\* ot_sender_->ComputeOutputs(), and the rest of evaluate_setup
ANDSetupComputeOutputs(p, g) ==
  /\ circ[g].kind = "AND"
  /\ pcS[p][g].at = "compute"
  /\ ot[1 - p][g].messages_sent
  /\ LET receiver_out == XCOTReceiverOutput(ot[p][g].choices, ot[1 - p][g].sender_out,
                                            ot[1 - p][g].correlations)
         delta_ab_share ==
           XorV(XorV(AndV(delta_a_share_[p][g], delta_b_share_[p][g]),
                     ot[p][g].sender_out),
                receiver_out)
     IN /\ ot' = [ot EXCEPT ![p][g].receiver_out = receiver_out]
        /\ Delta_y_share_' = [Delta_y_share_ EXCEPT ![p][g] = XorV(@, delta_ab_share)]
  /\ pcS' = [pcS EXCEPT ![p][g] = Done]
  /\ UNCHANGED <<cfgVars, hostVars, wireVars, pcO, delta_a_share_, delta_b_share_, inbox, resolved,
                 outVars, early>>

\* an AND gate at which every party adds Delta_a & Delta_b
ANDOnlineShareAtBothParties(p, g, Delta_a, Delta_b, das, dbs, dys) ==
  XorV(XorV(XorV(dys, AndV(Delta_a, dbs)), AndV(Delta_b, das)), AndV(Delta_a, Delta_b))

\* Delta_y_share_ ^= (Delta_a & delta_b_share_); ^= (Delta_b & delta_a_share_);
\* if (is_my_job) ^= (Delta_a & Delta_b)
ANDOnlineShare(p, g, Delta_a, Delta_b, das, dbs, dys) ==
  LET y == XorV(XorV(dys, AndV(Delta_a, dbs)), AndV(Delta_b, das))
  IN IF is_my_job(p, g) THEN XorV(y, AndV(Delta_a, Delta_b)) ELSE y

\* BooleanBEAVYANDGate::evaluate_online up to share_future_.get(): the public
\* shares of the inputs are read, the party's share of Delta_y is broadcast
ANDOnlineSend(p, g) ==
  /\ circ[g].kind = "AND"
  /\ pcO[p][g] = Start
  /\ OnlineMayStart(p)
  /\ \E rda \in ProdSeq([i \in 1..circ[g].nw |->
                  ReadSet(online_ready[p][inputs_a_(p, g)[i]],
                          public_share[p][inputs_a_(p, g)[i]],
                          num_simd(inputs_a_(p, g)[i]))]),
        rdb \in ProdSeq([i \in 1..circ[g].nw |->
                  ReadSet(online_ready[p][inputs_b_(p, g)[i]],
                          public_share[p][inputs_b_(p, g)[i]],
                          num_simd(inputs_b_(p, g)[i]))]),
        das \in ReadSet(pcS[p][g] = Done, delta_a_share_[p][g], NumBits(g)),
        dbs \in ReadSet(pcS[p][g] = Done, delta_b_share_[p][g], NumBits(g)),
        dys \in ReadSet(pcS[p][g] = Done, Delta_y_share_[p][g], NumBits(g)) :
       LET Delta_a == Flatten(rda)
           Delta_b == Flatten(rdb)
           y2 == ANDOnlineShare(p, g, Delta_a, Delta_b, das, dbs, dys)
       IN /\ Delta_y_share_' = [Delta_y_share_ EXCEPT ![p][g] = y2]
          /\ inbox' = SendTo(inbox, Parties \ {p}, p, g, y2)
  /\ early' = early \cup
       EarlyOf(p, g, "online", "public_share",
               inputs_a_(p, g) \o inputs_b_(p, g), online_ready[p]) \cup
       EarlyOf(p, g, "online", "own_setup", outputs_(p, g),
               [w \in Wires |-> pcS[p][g] = Done])
  /\ pcO' = [pcO EXCEPT ![p][g] = At("recv", 0)]
  /\ UNCHANGED <<cfgVars, hostVars, resolved, wireVars, pcS, delta_a_share_, delta_b_share_, ot, outVars>>

\* from share_future_.get() on: the peer's share completes Delta_y, which is
\* distributed among the output wires
ANDOnlineReceive(p, g) ==
  /\ circ[g].kind = "AND"
  /\ pcO[p][g].at = "recv"
  /\ inbox[p][<<1 - p, g>>] # <<>>
  /\ LET y == XorV(Delta_y_share_[p][g], Head(inbox[p][<<1 - p, g>>]))
     IN /\ Delta_y_share_' = [Delta_y_share_ EXCEPT ![p][g] = y]
        /\ public_share' = Write(public_share, p, outputs_(p, g),
             [i \in 1..circ[g].nw |->
                SubsetV(y, (i - 1) * circ[g].ns, i * circ[g].ns)])
  /\ online_ready' = Fire(online_ready, p, outputs_(p, g))
  /\ online_calls' = Count(online_calls, p, outputs_(p, g))
  /\ inbox' = [inbox EXCEPT ![p][<<1 - p, g>>] = Tail(@)]
  /\ resolved' = [resolved EXCEPT ![p] = @ \cup {<<1 - p, g>>}]
  /\ pcO' = [pcO EXCEPT ![p][g] = Done]
  /\ UNCHANGED <<cfgVars, hostVars, secret_share, setup_ready, setup_calls, pcS, delta_a_share_,
                 delta_b_share_, ot, outVars, early>>

\* ------------------------------------------------------------ scenarios
\* an input gate whose share goes straight into an output gate
InputOutputCircuit(owner, nw, ns, output_owner) ==
  LET c1 == <<BooleanBEAVYInputGate(owner, nw, ns)>>
  IN Append(c1, BooleanBEAVYOutputGate(c1, Share(c1, 1), output_owner))

\* an input gate followed by two INV gates
DoubleINVCircuit(owner, nw, ns) ==
  LET c1 == <<BooleanBEAVYInputGate(owner, nw, ns)>>
      c2 == Append(c1, BooleanBEAVYINVGate(c1, Share(c1, 1)))
  IN Append(c2, BooleanBEAVYINVGate(c2, Share(c2, 2)))

\* party 0 inputs a, party 1 inputs b, one binary gate on the two shares
BinaryCircuit(kind, nw, ns) ==
  LET c2 == <<BooleanBEAVYInputGate(0, nw, ns), BooleanBEAVYInputGate(1, nw, ns)>>
  IN Append(c2, IF kind = "XOR"
                THEN BooleanBEAVYXORGate(c2, Share(c2, 1), Share(c2, 2))
                ELSE BooleanBEAVYANDGate(c2, Share(c2, 1), Share(c2, 2)))

\* one input gate of party 0 with two wires, and the AND of the two wires
SquareCircuit(ns) ==
  LET c1 == <<BooleanBEAVYInputGate(0, 2, ns)>>
  IN Append(c1, BooleanBEAVYANDGate(c1, <<<<1, 1>>>>, <<<<1, 2>>>>))

Scenario(n, c, m, o, pre) ==
  [np |-> n, circ |-> c, nrand |-> m, oas |-> o, pre |-> pre, empty |-> FALSE,
   backends |-> {}, slack |-> 0]

\* the scenario in which a racing read may also see a share never assigned
ReadingEmpty(s) == [s EXCEPT !.empty = TRUE]

\* Two parties, one wire of one lane per share; every task of every gate is
\* scheduled independently (online_after_setup only restricts this, and is
\* left open for the input-output circuit).
Scenarios ==
  {ReadingEmpty(Scenario(2, InputOutputCircuit(0, 1, 1, oo), MaxRandom, BOOLEAN, {})) :
     oo \in {ALL_PARTIES, 0, 1}}
  \cup {Scenario(2, DoubleINVCircuit(0, 1, 1), MaxRandom, {FALSE}, {})}
  \cup {Scenario(2, BinaryCircuit("XOR", 1, 1), MaxRandom, {FALSE}, {})}
  \cup {Scenario(2, SquareCircuit(1), 1, {FALSE}, {})}

Init == InitOn(Scenarios)

\* a step of one task of one gate at one party
RunInputSenderSetup == \E p \in Parties, g \in Gates : InputSenderSetup(p, g)

RunInputSenderOnline == \E p \in Parties, g \in Gates : InputSenderOnline(p, g)

RunInputReceiverSetup == \E p \in Parties, g \in Gates : InputReceiverSetup(p, g)

RunInputReceiverOnline == \E p \in Parties, g \in Gates : InputReceiverOnline(p, g)

RunOutputSend == \E p \in Parties, g \in Gates : OutputSend(p, g)

RunOutputReceive == \E p \in Parties, g \in Gates : OutputReceive(p, g)

RunINVSetup == \E p \in Parties, g \in Gates : INVSetup(p, g)

RunINVOnline == \E p \in Parties, g \in Gates : INVOnline(p, g)

RunXORSetup == \E p \in Parties, g \in Gates : XORSetup(p, g)

RunXOROnline == \E p \in Parties, g \in Gates : XOROnline(p, g)

RunANDSetupOutputs == \E p \in Parties, g \in Gates : ANDSetupOutputs(p, g)

RunANDSetupInputs == \E p \in Parties, g \in Gates : ANDSetupInputs(p, g)

RunANDSetupSendMessages == \E p \in Parties, g \in Gates : ANDSetupSendMessages(p, g)

RunANDSetupComputeOutputs == \E p \in Parties, g \in Gates : ANDSetupComputeOutputs(p, g)

RunANDOnlineSend == \E p \in Parties, g \in Gates : ANDOnlineSend(p, g)

RunANDOnlineReceive == \E p \in Parties, g \in Gates : ANDOnlineReceive(p, g)

Next ==
  \/ RunInputSenderSetup
  \/ RunInputSenderOnline
  \/ RunInputReceiverSetup
  \/ RunInputReceiverOnline
  \/ RunOutputSend
  \/ RunOutputReceive
  \/ RunINVSetup
  \/ RunINVOnline
  \/ RunXORSetup
  \/ RunXOROnline
  \/ RunANDSetupOutputs
  \/ RunANDSetupInputs
  \/ RunANDSetupSendMessages
  \/ RunANDSetupComputeOutputs
  \/ RunANDOnlineSend
  \/ RunANDOnlineReceive

Spec == Init /\ [][Next]_vars

\* The AND gate on two shares that the input gates have delivered: every
\* choice of inputs, seeds, secret shares and OT randomness for one bit, and
\* every choice of inputs and seeds for two wires and for two lanes.
ANDScenarios ==
  {Scenario(2, BinaryCircuit("AND", 1, 1), MaxRandom, {FALSE}, {1, 2}),
   Scenario(2, BinaryCircuit("AND", 2, 1), 1, {FALSE}, {1, 2}),
   Scenario(2, BinaryCircuit("AND", 1, 2), 1, {FALSE}, {1, 2})}

InitAND == InitOn(ANDScenarios)

NextAND ==
  \/ RunANDSetupOutputs
  \/ RunANDSetupInputs
  \/ RunANDSetupSendMessages
  \/ RunANDSetupComputeOutputs
  \/ RunANDOnlineSend
  \/ RunANDOnlineReceive

SpecAND == InitAND /\ [][NextAND]_vars

\* One input gate among three parties, any owner.
InputScenarios ==
  {Scenario(3, <<BooleanBEAVYInputGate(o, sh[1], sh[2])>>, MaxRandom, {FALSE}, {}) :
     o \in 0..2, sh \in {<<1, 1>>, <<2, 1>>, <<1, 2>>}}

InitInput == InitOn(InputScenarios)

NextInput ==
  \/ RunInputSenderSetup
  \/ RunInputSenderOnline
  \/ RunInputReceiverSetup
  \/ RunInputReceiverOnline

SpecInput == InitInput /\ [][NextInput]_vars

\* One input gate of two wires between two parties; the vectors handed to the
\* input future may be a bit short or a bit long.
AnyLength(s) == [s EXCEPT !.slack = 1]

InputFailureScenarios ==
  {AnyLength(Scenario(2, <<BooleanBEAVYInputGate(0, 2, 1)>>, 1, {FALSE}, {}))}

InitInputFailure == InitOn(InputFailureScenarios)

SpecInputFailure == InitInputFailure /\ [][NextInput]_vars

\* -------------------------------------------------------- fair scheduling
\* one input gate of party 0 with two wires, the AND of the two wires, and an
\* output gate for the result
SquareOutputCircuit(ns, output_owner) ==
  LET c2 == SquareCircuit(ns)
  IN Append(c2, BooleanBEAVYOutputGate(c2, Share(c2, 2), output_owner))

\* The input gate of the AND circuit has been evaluated; the input gate of
\* the input-output circuit has not.
FairScenarios ==
  {Scenario(2, SquareOutputCircuit(1, 0), 1, {FALSE}, {1})}
  \cup {Scenario(2, InputOutputCircuit(0, 1, 1, oo), 1, BOOLEAN, {}) : oo \in {ALL_PARTIES, 1}}
  \cup {Scenario(2, DoubleINVCircuit(0, 1, 1), 1, {FALSE}, {})}
  \cup {Scenario(2, BinaryCircuit("XOR", 1, 1), 1, {FALSE}, {})}

InitFair == InitOn(FairScenarios)

\* the executor runs every task that can take a step
SpecFair == InitFair /\ [][Next]_vars /\ WF_vars(Next)


\* Two input gates of different shape supply the wires handed to a constructor:
\* two wires of one lane and one wire of two lanes.
ConstructorScenarios ==
  {Scenario(2, <<BooleanBEAVYInputGate(0, 2, 1), BooleanBEAVYInputGate(0, 1, 2)>>,
            1, {FALSE}, {})}

\* the wire vectors a caller may hand over, the empty one included
WireVectors == UNION {[1..n -> Wires] : n \in 0..MaxWires}

\* a caller constructs one XOR or AND gate over two wire vectors
ConstructBinaryGate ==
  \E kind \in {"XOR", "AND"}, in_a \in WireVectors, in_b \in WireVectors :
    /\ constructed = <<>>
    /\ constructed' =
         [kind |-> kind, in_a |-> in_a, in_b |-> in_b,
          gate |-> IF kind = "XOR" THEN BooleanBEAVYXORGate(circ, in_a, in_b)
                                   ELSE BooleanBEAVYANDGate(circ, in_a, in_b)]
    /\ UNCHANGED <<cfgVars, backendVars, gateVars>>

\* a caller constructs one INV gate over a wire vector
ConstructUnaryGate ==
  \E in \in WireVectors :
    /\ constructed = <<>>
    /\ constructed' = [kind |-> "INV", in_a |-> in, in_b |-> <<>>,
                       gate |-> BooleanBEAVYINVGate(circ, in)]
    /\ UNCHANGED <<cfgVars, backendVars, gateVars>>

InitConstructor == InitOn(ConstructorScenarios)

NextConstructor ==
  \/ ConstructBinaryGate
  \/ ConstructUnaryGate

SpecConstructor == InitConstructor /\ [][NextConstructor]_vars

\* ------------------------------------------------------------ ABYNBackend

ABYN_VERSION == "ABYN_VERSION"

\* a message of the evaluation, as opposed to a Hello message
Messages == {[message_type |-> "OutputMessage"]}

\* BuildHelloMessage: seed is <<>> for the null pointer, <<seed>> otherwise
BuildHelloMessage(source_id, destination_id, num_parties, seed, online_after_setup, version) ==
  [message_type |-> "HelloMessage", source_id |-> source_id,
   destination_id |-> destination_id, num_of_parties |-> num_parties,
   input_sharing_seed |-> seed, online_after_setup |-> online_after_setup,
   version |-> version]

\* a Send that throws for every party
SendThrowsAlways(p, party_id) == TRUE

\* Send throws when the message goes to the party itself
SendThrows(p, party_id) == party_id = p

\* communication_handlers_.at(party_id)->SendMessage(message)
SendMessage(h, p, party_id, message) ==
  IF party_id \in DOMAIN h[p] THEN [h EXCEPT ![p][party_id] = Append(@, message)] ELSE h

\* a seed for every destination, whether inputs are shared or not
HelloSeedAlways(p, destination_id) == <<my_rng[p][destination_id]>>

\* seed_ptr: the seed of my generator toward the destination, or null
HelloSeed(p, destination_id) ==
  IF share_inputs_[p] THEN <<my_rng[p][destination_id]>> ELSE <<>>

\* the handlers after the loop of SendHelloToOthers from destination_id on
RECURSIVE HelloLoop(_, _, _)
HelloLoop(h, p, destination_id) ==
  IF destination_id >= np THEN h
  ELSE IF destination_id = p THEN HelloLoop(h, p, destination_id + 1)
  ELSE HelloLoop(SendMessage(h, p, destination_id,
                             BuildHelloMessage(p, destination_id, np,
                                               HelloSeed(p, destination_id), oas,
                                               ABYN_VERSION)),
                 p, destination_id + 1)

\* ABYNBackend::Send
Send(p, party_id, message) ==
  /\ IF SendThrows(p, party_id)
     THEN /\ thrown' = [thrown EXCEPT ![p] = @ \cup {"Want to send message to myself"}]
          /\ UNCHANGED communication_handlers_
     ELSE /\ party_id # p => Len(communication_handlers_[p][party_id]) < MaxHanded
          /\ communication_handlers_' = SendMessage(communication_handlers_, p, party_id, message)
          /\ UNCHANGED thrown
  /\ UNCHANGED <<cfgVars, constructed, share_inputs_, logged, hello_ok, evaluated, gateVars>>

\* ABYNBackend::SendHelloToOthers, called once when the party connects
SendHelloToOthers(p) ==
  /\ "Send hello message to other parties" \notin logged[p]
  /\ logged' = [logged EXCEPT ![p] = @ \cup {"Send hello message to other parties"}]
  /\ communication_handlers_' = HelloLoop(communication_handlers_, p, 0)
  /\ UNCHANGED <<cfgVars, constructed, share_inputs_, thrown, hello_ok, evaluated, gateVars>>

\* ABYNBackend::VerifyHelloMessages; each handler's VerifyHelloMessage gives
\* either answer
VerifyHelloMessages(p) ==
  /\ hello_ok[p] = "unverified"
  /\ \E verify \in [Parties \ {p} -> BOOLEAN] :
       LET success == \A q \in Parties \ {p} : verify[q]
       IN  /\ hello_ok' = [hello_ok EXCEPT ![p] = IF success THEN "verified" ELSE "failed"]
           /\ logged' = [logged EXCEPT ![p] = @ \cup
                           {IF success THEN "Successfully verified hello messages"
                                       ELSE "Hello message verification failed"}]
  /\ UNCHANGED <<cfgVars, constructed, share_inputs_, communication_handlers_, thrown,
                 evaluated, gateVars>>

\* ABYNBackend::EvaluateSequential and EvaluateParallel, which the caller runs
\* after the Hello messages have been verified; neither looks at the outcome
Evaluate(p) ==
  /\ hello_ok[p] # "unverified"
  /\ ~evaluated[p]
  /\ evaluated' = [evaluated EXCEPT ![p] = TRUE]
  /\ UNCHANGED <<cfgVars, constructed, share_inputs_, communication_handlers_, thrown,
                 logged, hello_ok, gateVars>>

\* the backend of one party among two or three, before any gate is registered
WithBackend(s, p) == [s EXCEPT !.backends = {p}]

BackendScenarios ==
  UNION {{WithBackend(Scenario(n, <<>>, 1, BOOLEAN, {}), p) : p \in 0..(n - 1)} : n \in 2..3}

InitBackend == InitOn(BackendScenarios)

Backends == DOMAIN share_inputs_

RunSend ==
  \E p \in Backends, party_id \in Parties, message \in Messages : Send(p, party_id, message)

RunSendHelloToOthers == \E p \in Backends : SendHelloToOthers(p)

RunVerifyHelloMessages == \E p \in Backends : VerifyHelloMessages(p)

RunEvaluate == \E p \in Backends : Evaluate(p)

NextBackend ==
  \/ RunSend
  \/ RunSendHelloToOthers
  \/ RunVerifyHelloMessages
  \/ RunEvaluate

SpecBackend == InitBackend /\ [][NextBackend]_vars


\* =================================================================== properties
\* the value a party reconstructs from its public share of a wire and the
\* secret shares of all parties
Recon(p, w) ==
  XorV(public_share[p][WireAt(p, w)],
       XorOver([q \in Parties |-> secret_share[q][WireAt(q, w)]], Parties, num_simd(w)))

\* the clear value the circuit gives a wire
RECURSIVE Clear(_)
Clear(w) ==
  LET g == w[1]
      i == w[2]
  IN CASE circ[g].kind = "IN" -> input[g][i]
       [] circ[g].kind = "INV" -> NotV(Clear(circ[g].a[i]))
       [] circ[g].kind = "XOR" -> XorV(Clear(circ[g].a[i]), Clear(circ[g].b[i]))
       [] circ[g].kind = "AND" -> AndV(Clear(circ[g].a[i]), Clear(circ[g].b[i]))

GatesOf(kinds) == {g \in Gates : circ[g].kind \in kinds}

\* no task of gate g has read a field before its readiness event
NoEarly(g) == \A e \in early : e.g # g

\* both phases of gate g have returned at every party
Returned(g) == \A p \in Parties : pcS[p][g] = Done /\ pcO[p][g] = Done

\* both readiness events of the wire have fired at every party
ReadyEverywhere(w) ==
  \A p \in Parties : setup_ready[p][WireAt(p, w)] /\ online_ready[p][WireAt(p, w)]

\* the gates the value of a wire depends on, the producer included
RECURSIVE Cone(_)
Cone(g) ==
  {g} \cup UNION {Cone(circ[g].a[i][1]) : i \in 1..Len(circ[g].a)}
      \cup UNION {Cone(circ[g].b[i][1]) : i \in 1..Len(circ[g].b)}

\* the inputs of gate g are valid sharings: their readiness events have fired
\* at every party and no task that produced them raced
CorrectInputs(g) ==
  /\ \A i \in 1..Len(circ[g].a) : ReadyEverywhere(circ[g].a[i])
  /\ \A i \in 1..Len(circ[g].b) : ReadyEverywhere(circ[g].b[i])
  /\ \A h \in Cone(g) \ {g} : NoEarly(h)

\* C1: after evaluate_setup and then evaluate_online of an AND gate at both
\* parties over valid input sharings, every party reconstructs a AND b on every
\* wire, and exactly one party is designated to add Delta_a & Delta_b
C1_ANDCorrect ==
  \A g \in GatesOf({"AND"}) :
    (np = 2 /\ Returned(g) /\ NoEarly(g) /\ CorrectInputs(g)) =>
      /\ Cardinality({p \in Parties : is_my_job(p, g)}) = 1
      /\ \A p \in Parties, i \in 1..circ[g].nw :
           /\ Recon(p, <<g, i>>) = AndV(Recon(p, circ[g].a[i]), Recon(p, circ[g].b[i]))
           /\ Recon(p, <<g, i>>) = Clear(<<g, i>>)

C1_Witness ==
  \E g \in GatesOf({"AND"}) :
    /\ Returned(g) /\ NoEarly(g) /\ CorrectInputs(g)
    /\ Clear(<<g, 1>>) = <<1>>
    /\ AndV(public_share[0][WireAt(0, circ[g].a[1])],
            public_share[0][WireAt(0, circ[g].b[1])]) = <<1>>

\* C2: once every party has run evaluate_setup and then evaluate_online of an
\* input gate whose receivers' generators agree with the owner's, every party
\* reconstructs the owner's clear input on every wire
C2_InputSharing ==
  \A g \in GatesOf({"IN"}) :
    (/\ Returned(g) /\ NoEarly(g)
     /\ \A q \in Parties : their_rng[q][circ[g].owner] = my_rng[circ[g].owner][q]) =>
      \A p \in Parties, i \in 1..circ[g].nw : Recon(p, <<g, i>>) = input[g][i]

C2_Witness ==
  \E g \in GatesOf({"IN"}) :
    /\ np = 3 /\ circ[g].nw = 2 /\ circ[g].owner = 1
    /\ Returned(g) /\ NoEarly(g)
    /\ input[g] = <<<<1>>, <<0>>>>
    /\ my_rng[1][0] # my_rng[1][2]

\* C3: the value an Output gate delivers to a recipient is the value the Input
\* gate was given, for output_owner ALL_PARTIES or a single party
C3_RoundTrip ==
  \A p \in Parties, g \in GatesOf({"OUT"}) :
    output_promise[p][g] # <<>> =>
      output_promise[p][g][1] = [i \in 1..Len(circ[g].a) |-> Clear(circ[g].a[i])]

\* C4: once an XOR gate has run both phases at every party over valid input
\* sharings, every party reconstructs a XOR b on every wire
C4_XORCorrect ==
  \A g \in GatesOf({"XOR"}) :
    (Returned(g) /\ CorrectInputs(g)) =>
      \A p \in Parties, i \in 1..circ[g].nw :
        /\ Recon(p, <<g, i>>) = XorV(Recon(p, circ[g].a[i]), Recon(p, circ[g].b[i]))
        /\ Recon(p, <<g, i>>) = Clear(<<g, i>>)

C4_Witness ==
  \E g \in GatesOf({"XOR"}) :
    /\ Returned(g) /\ CorrectInputs(g)
    /\ Clear(circ[g].a[1]) = <<1>> /\ Clear(circ[g].b[1]) = <<0>>
    /\ public_share[1][<<g, 1>>] = <<0>>

\* C5: once an INV gate has run both phases at every party over a valid input
\* sharing, every party reconstructs the complement of the input, and a second
\* INV gate on its output gives back the input
C5_INVCorrect ==
  \A g \in GatesOf({"INV"}) :
    (Returned(g) /\ CorrectInputs(g)) =>
      \A p \in Parties, i \in 1..circ[g].nw :
        /\ Recon(p, <<g, i>>) = NotV(Recon(p, circ[g].a[i]))
        /\ Recon(p, <<g, i>>) = Clear(<<g, i>>)
        /\ circ[circ[g].a[i][1]].kind = "INV" =>
             Recon(p, <<g, i>>) = Recon(p, circ[circ[g].a[i][1]].a[i])

C5_Witness ==
  \E g, h \in GatesOf({"INV"}) :
    /\ circ[g].a[1] = <<h, 1>>
    /\ Returned(g) /\ Returned(h) /\ CorrectInputs(g)
    /\ job[g] # job[h]
    /\ Recon(0, <<h, 1>>) = <<0>> /\ Recon(0, <<g, 1>>) = <<1>>

\* C6: a step of an XOR or INV gate sends no message and uses no oblivious
\* transfer, and the constructors register no message future for such a gate
C6_FreeGates ==
  [][\A p \in Parties, g \in GatesOf({"XOR", "INV"}) :
       /\ \A k \in registered[p] : k[2] # g
       /\ (pcS'[p][g] # pcS[p][g] \/ pcO'[p][g] # pcO[p][g]) =>
            inbox' = inbox /\ ot' = ot /\ registered' = registered]_vars

C6_Witness ==
  /\ \E g \in GatesOf({"XOR"}) : Returned(g)
  /\ \A p \in Parties, k \in Keys : inbox[p][k] = <<>>

\* C7: the online phase of an AND gate reads the public share of an input only
\* after the online readiness of that input has fired
C7_ANDOnlineWaits ==
  \A e \in early :
    ~(circ[e.g].kind = "AND" /\ e.phase = "online" /\ e.field = "public_share")

\* C8: the Output gate reads the secret share of an input only after its setup
\* readiness and the public share only after its online readiness
C8_OutputWaits ==
  \A e \in early : circ[e.g].kind # "OUT"

\* C9: the XOR gate, the INV gate at the designated party and the setup phase
\* of the AND gate read a field of an input wire only after the matching
\* readiness event of that wire has fired
C9_WaitBeforeRead ==
  \A e \in early :
    /\ circ[e.g].kind \notin {"XOR", "INV"}
    /\ ~(circ[e.g].kind = "AND" /\ e.phase = "setup")

C9_Witness ==
  \E p \in Parties, g \in GatesOf({"XOR", "INV", "AND"}) :
    /\ circ[g].kind = "INV" => is_my_job(p, g)
    /\ pcS[p][g] = Done
    /\ circ[g].kind # "AND" => pcO[p][g] = Done
    /\ early # {}

\* a phase of gate g that has returned at party p has fired the matching
\* readiness event of every output wire
OutputsReadyOnReturn(p, g) ==
  /\ pcS[p][g] = Done => \A i \in 1..circ[g].nw : setup_ready[p][outputs_(p, g)[i]]
  /\ pcO[p][g] = Done => \A i \in 1..circ[g].nw : online_ready[p][outputs_(p, g)[i]]

\* C10: when a phase of an Input, INV, XOR or AND gate returns, the readiness
\* event of the phase has fired on every output wire, at a party the INV gate
\* does not designate as well
C10_ReadyOnReturn ==
  \A p \in Parties, g \in GatesOf({"IN", "INV", "XOR", "AND"}) : OutputsReadyOnReturn(p, g)

\* C10 amended: the same, except for an INV gate at a party it does not
\* designate, whose output wires are its input wires and become ready when
\* their producer fires the event
C10_ReadyOnReturnDesignated ==
  \A p \in Parties, g \in GatesOf({"IN", "INV", "XOR", "AND"}) :
    (circ[g].kind = "INV" => is_my_job(p, g)) => OutputsReadyOnReturn(p, g)

C10_Witness ==
  \E p \in Parties, g \in GatesOf({"INV"}) :
    /\ is_my_job(p, g) /\ pcS[p][g] = Done /\ pcO[p][g] = Done
    /\ \E q \in Parties : ~is_my_job(q, g) /\ pcS[q][g] = Done
                          /\ ~setup_ready[q][outputs_(q, g)[1]]


\* C11: set_setup_ready and set_online_ready are each invoked at most once on
\* every wire object at every party, the wires an INV gate forwards included;
\* when all tasks of a party have returned, each has been invoked exactly once
\* on every wire object the party holds
C11_ReadyOnce ==
  \A p \in Parties, w \in Wires :
    /\ setup_calls[p][w] <= 1 /\ online_calls[p][w] <= 1
    /\ setup_ready[p][w] <=> setup_calls[p][w] > 0
    /\ online_ready[p][w] <=> online_calls[p][w] > 0
    /\ (/\ \A g \in Gates : pcS[p][g] = Done /\ pcO[p][g] = Done
        /\ circ[w[1]].kind # "OUT" /\ WireAt(p, w) = w) =>
         setup_calls[p][w] = 1 /\ online_calls[p][w] = 1

C11_Witness ==
  \E p \in Parties, g \in GatesOf({"INV"}) :
    /\ ~is_my_job(p, g) /\ Returned(g)
    /\ WireAt(p, <<g, 1>>) # <<g, 1>>
    /\ setup_calls[p][WireAt(p, <<g, 1>>)] = 1
    /\ online_calls[p][WireAt(p, <<g, 1>>)] = 1


\* every task of every gate has returned at every party
AllReturned == \A g \in Gates : Returned(g)

\* C12: every message sent for a gate finds at its recipient one future
\* registered for (sender, gate) with the number of bits of the payload, no
\* future receives two messages, and when every task has returned no message
\* is left over and every registered future has been resolved
C12_MessageAccounting ==
  \A q \in Parties, k \in Keys :
    /\ Len(inbox[q][k]) + (IF k \in resolved[q] THEN 1 ELSE 0) <= 1
    /\ inbox[q][k] # <<>> =>
         /\ k \in registered[q]
         /\ Len(Head(inbox[q][k])) = RegisteredBits(circ, k[2])
    /\ k \in resolved[q] => k \in registered[q]
    /\ AllReturned => inbox[q][k] = <<>> /\ (k \in registered[q] => k \in resolved[q])


\* the clear values of the inputs of an Output gate, wire by wire
ClearOutputs(g) == [i \in 1..Len(circ[g].a) |-> Clear(circ[g].a[i])]

\* C13: at a party that is not the owner of an Output gate get_output_future
\* fails and the promise is never fulfilled; at the owner, and at every party
\* for ALL_PARTIES, it succeeds and the promise is fulfilled exactly once,
\* with the clear value
C13_OutputOwnership ==
  \A p \in Parties, g \in GatesOf({"OUT"}) :
    IF circ[g].owner \in Parties \ {p}
    THEN /\ get_output_future(p, g) = [error |-> "not this parties output"]
         /\ output_promise[p][g] = <<>>
    ELSE /\ DOMAIN get_output_future(p, g) = {"future"}
         /\ Len(output_promise[p][g]) <= 1
         /\ pcO[p][g] = Done <=> Len(output_promise[p][g]) = 1
         /\ output_promise[p][g] # <<>> =>
              get_output_future(p, g).future = <<ClearOutputs(g)>>


\* C14: at a party that is not the recipient of an Output gate evaluate_online
\* sends no message, waits on no future and changes no state
C14_NonRecipientNoOp ==
  [][\A p \in Parties, g \in GatesOf({"OUT"}) :
       (~IsRecipient(p, g) /\ pcO'[p][g] # pcO[p][g]) =>
         /\ pcO'[p][g] = Done
         /\ UNCHANGED <<inbox, resolved, wireVars, andVars, output_promise>>]_vars

\* C14 amended: at such a party evaluate_online sends one message, its secret
\* shares of the input wires, to the output owner and to nobody else; it waits
\* on no future, sets no promise and changes no wire
C14_NonRecipientSendsShare ==
  [][\A p \in Parties, g \in GatesOf({"OUT"}) :
       (~IsRecipient(p, g) /\ pcO'[p][g] # pcO[p][g]) =>
         /\ pcO'[p][g] = Done
         /\ inbox' = [inbox EXCEPT ![circ[g].owner][<<p, g>>] =
                        Append(@, my_secret_share'[p][g])]
         /\ Len(inbox'[circ[g].owner][<<p, g>>]) = 1
         /\ UNCHANGED <<resolved, wireVars, andVars, output_promise>>]_vars

C14_Witness ==
  \E p \in Parties, g \in GatesOf({"OUT"}) :
    /\ ~IsRecipient(p, g) /\ pcO[p][g] = Done
    /\ inbox[circ[g].owner][<<p, g>>] # <<>>
    /\ output_promise[p][g] = <<>>

\* the lane counts of the wires of a vector
Lanes(in) == {NumSimdOf(circ, in[i]) : i \in 1..Len(in)}

\* C15: a binary gate constructed from an empty vector, from two vectors of
\* different length or from wires that do not all have the lane count of the
\* first wire fails with an error and has no output wires, and so does a unary
\* gate constructed from no wires or from wires of different lane counts; every
\* other construction gives a gate with exactly as many output wires as input
\* wires per operand, all of the common lane count.
C15_ConstructorValidation ==
  constructed # <<>> =>
    LET a == constructed.in_a
        b == constructed.in_b
        r == constructed.gate
        bad == IF constructed.kind = "INV"
               THEN Len(a) = 0 \/ Cardinality(Lanes(a)) > 1
               ELSE \/ Len(a) = 0 \/ Len(b) = 0 \/ Len(a) # Len(b)
                    \/ Cardinality(Lanes(a) \cup Lanes(b)) > 1
    IN  IF bad THEN DOMAIN r = {"error"}
        ELSE /\ "error" \notin DOMAIN r
             /\ r.kind = constructed.kind
             /\ r.nw = Len(a)
             /\ Lanes(a) = {r.ns}

\* a binary constructor refused two vectors of equal length because of the
\* lane counts of their wires
C15_Witness ==
  /\ constructed # <<>>
  /\ constructed.kind \in {"XOR", "AND"}
  /\ Len(constructed.in_a) = 2 /\ Len(constructed.in_b) = 2
  /\ Cardinality(Lanes(constructed.in_a) \cup Lanes(constructed.in_b)) = 2
  /\ constructed.gate = [error |-> "number of SIMD values need to be the same for all wires"]

\* the Hello messages among the messages handed to a handler
Hellos(q) == SelectSeq(q, LAMBDA m : m.message_type = "HelloMessage")

\* C16: a Send of a party to itself throws and hands no message to any
\* communication handler; a Send to another party throws nothing and hands the
\* message to the handler of that party and to no other.
C16_SelfSend ==
  [][\A p \in Backends, party_id \in Parties, message \in Messages :
       Send(p, party_id, message) =>
         IF party_id = p
         THEN /\ "Want to send message to myself" \in thrown'[p]
              /\ communication_handlers_' = communication_handlers_
         ELSE /\ thrown' = thrown
              /\ communication_handlers_'[p][party_id] =
                   Append(communication_handlers_[p][party_id], message)
              /\ \A q \in Parties : \A r \in Parties \ {q} :
                   <<q, r>> # <<p, party_id>> =>
                     communication_handlers_'[q][r] = communication_handlers_[q][r]]_vars

\* among three parties, one has sent a message to itself and one to a peer:
\* the first was refused, the second is with the handler of that peer alone
C16_Witness ==
  /\ np = 3
  /\ \E p \in Backends : \E r \in Parties \ {p} :
       /\ "Want to send message to myself" \in thrown[p]
       /\ communication_handlers_[p][r] \in {<<m>> : m \in Messages}
       /\ \A d \in Parties \ {p, r} : communication_handlers_[p][d] = <<>>

\* C17: when the Hello message of a peer fails to verify, the backend raises
\* the failure and the circuit is not evaluated.
C17_VerificationFailureAborts ==
  \A p \in Backends :
    hello_ok[p] = "failed" =>
      /\ "Hello message verification failed" \in thrown[p]
      /\ ~evaluated[p]

\* C18: SendHelloToOthers hands exactly one Hello message to the handler of
\* every other party and none to a handler of its own; the message names the
\* sender, the destination, the number of parties, online_after_setup and the
\* version, and holds the seed of the sender's generator toward the destination
\* exactly when inputs are shared.
C18_HelloFanOut ==
  \A p \in Backends :
    /\ DOMAIN communication_handlers_[p] = Parties \ {p}
    /\ \A q \in Parties \ {p} :
         Hellos(communication_handlers_[p][q]) =
           IF "Send hello message to other parties" \in logged[p]
           THEN <<[message_type |-> "HelloMessage", source_id |-> p, destination_id |-> q,
                   num_of_parties |-> np,
                   input_sharing_seed |-> IF share_inputs_[p] THEN <<my_rng[p][q]>> ELSE <<>>,
                   online_after_setup |-> oas, version |-> ABYN_VERSION]>>
           ELSE <<>>

\* among three parties, one that shares its inputs has sent its Hello messages,
\* with different seeds toward its two peers
C18_Witness ==
  /\ np = 3
  /\ \E p \in Backends :
       /\ share_inputs_[p]
       /\ \E d \in Parties, e \in Parties : d # p /\ e # p /\ my_rng[p][d] # my_rng[p][e]
       /\ "Send hello message to other parties" \in logged[p]
       /\ \A d \in Parties \ {p} : Hellos(communication_handlers_[p][d]) # <<>>

\* C19: the bits delivered in an output promise are fixed by the inputs, the
\* seeds and the random draws: every delivered wire holds one determinate bit
\* per lane, none left open by the order in which the tasks ran.
C19_Determinism ==
  \A p \in Parties, g \in GatesOf({"OUT"}) :
    output_promise[p][g] # <<>> =>
      /\ Len(output_promise[p][g][1]) = Len(circ[g].a)
      /\ \A i \in 1..Len(circ[g].a) :
           output_promise[p][g][1][i] \in AllVectors(NumSimdOf(circ, circ[g].a[i]))

\* C20: once a wire of an Input, XOR, INV or AND gate is online-ready at two
\* parties, both hold the same public share for it.
C20_PublicShareAgreement ==
  \A g \in GatesOf({"IN", "XOR", "INV", "AND"}), p \in Parties, q \in Parties :
    \A i \in 1..circ[g].nw :
      (online_ready[p][WireAt(p, <<g, i>>)] /\ online_ready[q][WireAt(q, <<g, i>>)]) =>
        public_share[p][WireAt(p, <<g, i>>)] = public_share[q][WireAt(q, <<g, i>>)]

\* C21: at every party no step changes the secret share of a wire whose
\* setup-ready event has fired, nor the public share of a wire whose
\* online-ready event has fired.
C21_WriteOnce ==
  [][\A p \in Parties, w \in Wires :
       /\ setup_ready[p][w] => secret_share'[p][w] = secret_share[p][w]
       /\ online_ready[p][w] => public_share'[p][w] = public_share[p][w]]_vars

\* C22: when evaluate_online of the input sender fails over an input whose
\* length is not num_simd, no output wire of the gate is online-ready and
\* nothing has been broadcast for the gate.
C22_FailurePoisons ==
  \A p \in Parties, g \in GatesOf({"IN"}) :
    pcO[p][g] = Failed =>
      /\ \A i \in 1..circ[g].nw : ~online_ready[p][<<g, i>>]
      /\ \A q \in Parties : inbox[q][<<p, g>>] = <<>> /\ <<p, g>> \notin resolved[q]

\* C23: a task of an INV gate at the designated party writes only the gate's
\* own output wires, which are no input wires, and leaves every other wire as
\* it was; at the other party the output wires are the input wires, and the
\* task changes no share and signals no readiness event.
C23_INVFrame ==
  [][\A p \in Parties, g \in GatesOf({"INV"}) :
       (INVSetup(p, g) \/ INVOnline(p, g)) =>
         IF is_my_job(p, g)
         THEN /\ outputs_(p, g) = [i \in 1..circ[g].nw |-> <<g, i>>]
              /\ \A q \in Parties, w \in Wires :
                   (q # p \/ w[1] # g) =>
                     /\ secret_share'[q][w] = secret_share[q][w]
                     /\ public_share'[q][w] = public_share[q][w]
                     /\ setup_ready'[q][w] = setup_ready[q][w]
                     /\ online_ready'[q][w] = online_ready[q][w]
         ELSE /\ outputs_(p, g) = inputs_a_(p, g)
              /\ UNCHANGED wireVars]_vars

\* an INV gate has run both tasks at both parties: the designated party holds
\* the complement in a wire of the gate and its input wire still reconstructs
\* the input, the other party never touched a wire of the gate
C23_Witness ==
  \E g \in GatesOf({"INV"}), p \in Parties, q \in Parties :
    /\ is_my_job(p, g) /\ ~is_my_job(q, g)
    /\ Returned(g)
    /\ circ[circ[g].a[1][1]].kind = "IN"
    /\ secret_share[p][<<g, 1>>] = NotV(secret_share[p][circ[g].a[1]])
    /\ Recon(p, circ[g].a[1]) = Clear(circ[g].a[1])
    /\ secret_share[q][<<g, 1>>] = <<>> /\ ~setup_ready[q][<<g, 1>>]

\* the AND gate's evaluate_setup at p has read an input wire or called the OT
OTStarted(p, g) ==
  \/ delta_a_share_[p][g] # <<>> \/ delta_b_share_[p][g] # <<>>
  \/ ot[p][g].choices # <<>> \/ ot[p][g].correlations # <<>>
  \/ ot[p][g].corrections_sent \/ ot[p][g].messages_sent
  \/ \E e \in early : e.p = p /\ e.g = g /\ e.phase = "setup"

OutputsDelivered ==
  \A p \in Parties, g \in GatesOf({"OUT"}) :
    circ[g].owner \in {ALL_PARTIES, p} => output_promise[p][g] # <<>>

C26_OwnSetupFirst ==
  \A e \in early :
    ~(e.phase = "online" /\ e.field \in {"own_setup", "premask"})

====
